---- MODULE Spec2Model ----
(***************************************************************************)
(* Model of src/main.go: CreateWebtoonStrip (open the zip archive, sort    *)
(* the entries by name, decode every candidate entry, accumulate the pages *)
(* of the common width, compose the strip), isImageFile and decodeImage.   *)
(*                                                                         *)
(* An entry name is the sequence of its bytes.  What an entry holds is     *)
(* input: it is drawn when the code first touches it (file.Open,           *)
(* io.ReadAll, decodeImage) and recorded in the entry, so that the whole   *)
(* archive is known once the page loop has passed over it.  The pixels of  *)
(* a page are abstracted to the page's name and the index of the row.      *)
(***************************************************************************)
EXTENDS Integers, Sequences, FiniteSets, TLC

VARIABLES files, pc, idx, handleOpen, handleCloses, rcOpen,
          commonWidth, totalHeight, images, result, finalImage, buf, dec

vars == <<files, pc, idx, handleOpen, handleCloses, rcOpen,
          commonWidth, totalHeight, images, result, finalImage, buf, dec>>

\* ------------------------------------------------------------------ bounds
\* Most entries of an archive.
MaxFiles == 3
\* Page widths are 0..MaxW (0 is a width the code treats as "not yet set").
MaxW == 2
\* Page heights are 1..MaxH.
MaxH == 2

\* ------------------------------------------------------------- entry names
\* "1.png", "10.JPG", "2.webp", "3.txt"; bytewise "1.png" < "10.JPG" < "2.webp".
Names ==
  { <<49, 46, 112, 110, 103>>,
    <<49, 48, 46, 74, 80, 71>>,
    <<50, 46, 119, 101, 98, 112>>,
    <<51, 46, 116, 120, 116>> }

\* Go's < on strings: bytewise lexicographic, a proper prefix is smaller.
RECURSIVE NameLess(_, _)
NameLess(a, b) ==
  IF b = <<>> THEN FALSE
  ELSE IF a = <<>> THEN TRUE
  ELSE IF Head(a) # Head(b) THEN Head(a) < Head(b)
  ELSE NameLess(Tail(a), Tail(b))

\* filepath.Ext: the suffix from the last '.' (46) of the last path element
\* (elements are separated by '/', 47); empty when there is no dot.
RECURSIVE ExtFrom(_, _)
ExtFrom(path, i) ==
  IF i < 1 \/ path[i] = 47 THEN <<>>
  ELSE IF path[i] = 46 THEN SubSeq(path, i, Len(path))
  ELSE ExtFrom(path, i - 1)

Ext(path) == ExtFrom(path, Len(path))

\* strings.ToLower on ASCII: 'A'..'Z' (65..90) map to 'a'..'z'.
ToLower(s) == [i \in 1..Len(s) |-> IF s[i] >= 65 /\ s[i] <= 90 THEN s[i] + 32 ELSE s[i]]

\* ".jpg", ".jpeg", ".png", ".webp", compared after lowering the extension.
isImageFile(filename) ==
  LET ext == ToLower(Ext(filename))
  IN  \/ ext = <<46, 106, 112, 103>>
      \/ ext = <<46, 106, 112, 101, 103>>
      \/ ext = <<46, 112, 110, 103>>
      \/ ext = <<46, 119, 101, 98, 112>>

\* ------------------------------------------------------------ decodeImage
Formats == {"jpeg", "png", "webp"}

\* What one decoder makes of a buffer: an error, or an image of some size.
NoImage == [ok |-> FALSE, w |-> 0, h |-> 0]
Decoded == [ok : {TRUE}, w : 0..MaxW, h : 1..MaxH]

\* A buffer is what each of the three decoders makes of it.
Bytes == [Formats -> {NoImage} \cup Decoded]

decodeImagePngFirst(data) ==
  IF data["png"].ok
    THEN [err |-> FALSE, img |-> data["png"], format |-> "png", tried |-> <<"png">>]
  ELSE IF data["jpeg"].ok
    THEN [err |-> FALSE, img |-> data["jpeg"], format |-> "jpeg", tried |-> <<"png", "jpeg">>]
  ELSE IF data["webp"].ok
    THEN [err |-> FALSE, img |-> data["webp"], format |-> "webp",
          tried |-> <<"png", "jpeg", "webp">>]
  ELSE [err |-> TRUE, img |-> NoImage, format |-> "", tried |-> <<"png", "jpeg", "webp">>]

\* jpeg.Decode, then png.Decode, then webp.Decode; `tried` lists the decoders
\* that were called.  (io.ReadAll of a bytes.Reader does not fail.)
decodeImage(data) ==
  IF data["jpeg"].ok
    THEN [err |-> FALSE, img |-> data["jpeg"], format |-> "jpeg", tried |-> <<"jpeg">>]
  ELSE IF data["png"].ok
    THEN [err |-> FALSE, img |-> data["png"], format |-> "png", tried |-> <<"jpeg", "png">>]
  ELSE IF data["webp"].ok
    THEN [err |-> FALSE, img |-> data["webp"], format |-> "webp",
          tried |-> <<"jpeg", "png", "webp">>]
  ELSE [err |-> TRUE, img |-> NoImage, format |-> "", tried |-> <<"jpeg", "png", "webp">>]

\* The buffers the page loop reads: undecodable, or an image in one format.
PageBytes == {b \in Bytes : Cardinality({f \in Formats : b[f].ok}) <= 1}

\* ----------------------------------------------------------- the archive
\* What is known of an entry's content: nothing yet ("unread"), that it
\* cannot be opened or read, that no decoder takes it ("bad"), or its image.
Unread == [kind |-> "unread", w |-> 0, h |-> 0]
Content(kind, img) == [kind |-> kind, w |-> img.w, h |-> img.h]

Entry(name, content) == [name |-> name, content |-> content]

SeqsUpTo(S, n) == UNION {[1..k -> S] : k \in 0..n}

Archives == SeqsUpTo({Entry(nm, Unread) : nm \in Names}, MaxFiles)

Reveal(fs, i, content) == [fs EXCEPT ![i] = Entry(fs[i].name, content)]

\* --------------------------------------------------------------- sorting
Perms(n) == {p \in [1..n -> 1..n] : \A i, j \in 1..n : i # j => p[i] # p[j]}

IsSortedByName(fs) ==
  \A i, j \in 1..Len(fs) : i < j => ~NameLess(fs[j].name, fs[i].name)

SortedOrdersUnsorted(fs) == {fs}

\* sort.Slice with less = (Name <): some permutation in which no later entry
\* is less than an earlier one; the sort is not stable, so entries of equal
\* name come in any order.
SortedOrders(fs) ==
  {g \in {[i \in 1..Len(fs) |-> fs[p[i]]] : p \in Perms(Len(fs))} : IsSortedByName(g)}

\* ------------------------------------------------------- the compositor
\* A decoded page: the name of its entry and its size.
Page(name, img) == [src |-> name, w |-> img.w, h |-> img.h]

\* The accumulator of the page loop.
Acc(cw, th, imgs) == [commonWidth |-> cw, totalHeight |-> th, images |-> imgs]

EmptyAcc == Acc(0, 0, <<>>)

AccumulateCountSkipped(st, page) ==
  IF st.commonWidth = 0
    THEN Acc(page.w, st.totalHeight + page.h, Append(st.images, page))
  ELSE IF page.w # st.commonWidth
    THEN Acc(st.commonWidth, st.totalHeight + page.h, st.images)
  ELSE Acc(st.commonWidth, st.totalHeight + page.h, Append(st.images, page))

AccumulateDropFirst(st, page) ==
  IF st.commonWidth = 0
    THEN Acc(page.w, st.totalHeight, st.images)
  ELSE IF page.w # st.commonWidth
    THEN st
  ELSE Acc(st.commonWidth, st.totalHeight + page.h, Append(st.images, page))

\* Lines 112-121: the first width seen while commonWidth is 0 becomes the
\* common width; a page of another width is skipped; any other page is
\* appended and its height added.
Accumulate(st, page) ==
  IF st.commonWidth = 0
    THEN Acc(page.w, st.totalHeight + page.h, Append(st.images, page))
  ELSE IF page.w # st.commonWidth
    THEN st
  ELSE Acc(st.commonWidth, st.totalHeight + page.h, Append(st.images, page))

Min(a, b) == IF a <= b THEN a ELSE b

\* A row of the strip: the page it was copied from, the row of that page and
\* the number of columns copied; a row nothing was drawn on is blank.
BlankRow == [src |-> <<>>, y |-> 0, w |-> 0]

\* draw.Draw(finalImage, Rect(0, currentY, commonWidth, currentY+h), img,
\* Point{}, draw.Src): the rectangle is clipped to the strip and to the page.
Paint(rows, page, currentY, cw) ==
  [r \in 1..Len(rows) |->
     IF r > currentY /\ r <= currentY + page.h /\ Min(cw, page.w) > 0
       THEN [src |-> page.src, y |-> r - currentY, w |-> Min(cw, page.w)]
       ELSE rows[r]]

RECURSIVE DrawPages(_, _, _, _)
DrawPages(rows, imgs, currentY, cw) ==
  IF imgs = <<>> THEN rows
  ELSE DrawPages(Paint(rows, Head(imgs), currentY, cw), Tail(imgs),
                 currentY + Head(imgs).h, cw)

NoStrip == [w |-> 0, rows |-> <<>>]

\* Lines 129-135: a blank image of commonWidth x totalHeight, the pages drawn
\* on it one below the other.
Compose(st) ==
  [w |-> st.commonWidth,
   rows |-> DrawPages([r \in 1..st.totalHeight |-> BlankRow], st.images, 0,
                      st.commonWidth)]

\* Lines 125-137: what the call returns once the page loop has ended.
Outcome(st) ==
  IF Len(st.images) = 0
    THEN [result |-> "NoValidPagesError", strip |-> NoStrip]
    ELSE [result |-> "ok", strip |-> Compose(st)]

RcAfterReadLeak(open, readFailed) == IF readFailed THEN open ELSE FALSE

\* Lines 98-102: rc.Close() runs right after io.ReadAll, before its error is
\* looked at.
RcAfterRead(open, readFailed) == FALSE

\* ------------------------------------------------------------------ state
NoProbe == [err |-> TRUE, img |-> NoImage, format |-> "", tried |-> <<>>]
NoBuf == [f \in Formats |-> NoImage]

TypeOK ==
  /\ pc \in {"start", "sort", "loop", "read", "done", "probe", "probed"}
  /\ idx \in 1..(MaxFiles + 1)
  /\ handleOpen \in BOOLEAN
  /\ rcOpen \in BOOLEAN
  /\ handleCloses \in Nat
  /\ commonWidth \in 0..MaxW
  /\ totalHeight \in 0..(MaxFiles * MaxH)
  /\ Len(files) <= MaxFiles
  /\ Len(images) <= Len(files)
  /\ result \in {"none", "ArchiveOpenError", "EntryOpenError", "EntryReadError",
                 "NoValidPagesError", "ok"}

Init ==
  /\ files \in Archives
  /\ pc = "start"
  /\ idx = 1
  /\ handleOpen = FALSE
  /\ handleCloses = 0
  /\ rcOpen = FALSE
  /\ commonWidth = 0
  /\ totalHeight = 0
  /\ images = <<>>
  /\ result = "none"
  /\ finalImage = NoStrip
  /\ buf = NoBuf
  /\ dec = NoProbe

\* A return of CreateWebtoonStrip after the archive was opened: the deferred
\* reader.Close() runs (line 81).
Return(res, strip) ==
  /\ result' = res
  /\ finalImage' = strip
  /\ pc' = "done"
  /\ handleOpen' = FALSE
  /\ handleCloses' = handleCloses + 1

\* Lines 77-81: zip.OpenReader fails, or gives the handle.
OpenReader ==
  /\ pc = "start"
  /\ \/ /\ pc' = "done"
        /\ result' = "ArchiveOpenError"
        /\ UNCHANGED handleOpen
     \/ /\ pc' = "sort"
        /\ handleOpen' = TRUE
        /\ UNCHANGED result
  /\ UNCHANGED <<files, idx, handleCloses, rcOpen, commonWidth, totalHeight,
                 images, finalImage, buf, dec>>

\* Lines 83-89.
SortFiles ==
  /\ pc = "sort"
  /\ files' \in SortedOrders(files)
  /\ pc' = "loop"
  /\ UNCHANGED <<idx, handleOpen, handleCloses, rcOpen, commonWidth, totalHeight,
                 images, result, finalImage, buf, dec>>

\* Lines 91-96: the next entry; one that is no image file is passed over,
\* another is opened, and a failure to open it ends the call.
NextEntry ==
  /\ pc = "loop"
  /\ idx <= Len(files)
  /\ \/ /\ ~isImageFile(files[idx].name)
        /\ idx' = idx + 1
        /\ UNCHANGED <<files, pc, handleOpen, handleCloses, rcOpen, result, finalImage>>
     \/ /\ isImageFile(files[idx].name)
        /\ files' = Reveal(files, idx, Content("openErr", NoImage))
        /\ Return("EntryOpenError", NoStrip)
        /\ UNCHANGED <<idx, rcOpen>>
     \/ /\ isImageFile(files[idx].name)
        /\ rcOpen' = TRUE
        /\ pc' = "read"
        /\ UNCHANGED <<files, idx, handleOpen, handleCloses, result, finalImage>>
  /\ UNCHANGED <<commonWidth, totalHeight, images, buf, dec>>

\* Lines 98-102: io.ReadAll fails; the entry's reader is closed, the call ends.
ReadFails ==
  /\ pc = "read"
  /\ rcOpen' = RcAfterRead(rcOpen, TRUE)
  /\ files' = Reveal(files, idx, Content("readErr", NoImage))
  /\ Return("EntryReadError", NoStrip)
  /\ UNCHANGED <<idx, commonWidth, totalHeight, images, buf, dec>>

\* Lines 98-121: the entry's bytes are read, its reader is closed, the bytes
\* are decoded; an undecodable entry is passed over, a page goes to the
\* accumulator.
ReadEntry ==
  /\ pc = "read"
  /\ \E data \in PageBytes :
       LET d == decodeImage(data)
           st == Accumulate(Acc(commonWidth, totalHeight, images),
                            Page(files[idx].name, d.img))
       IN  IF d.err
             THEN /\ files' = Reveal(files, idx, Content("bad", NoImage))
                  /\ UNCHANGED <<commonWidth, totalHeight, images>>
             ELSE /\ files' = Reveal(files, idx, Content("img", d.img))
                  /\ commonWidth' = st.commonWidth
                  /\ totalHeight' = st.totalHeight
                  /\ images' = st.images
  /\ rcOpen' = RcAfterRead(rcOpen, FALSE)
  /\ idx' = idx + 1
  /\ pc' = "loop"
  /\ UNCHANGED <<handleOpen, handleCloses, result, finalImage, buf, dec>>

\* Lines 125-137: after the last entry.
Finish ==
  /\ pc = "loop"
  /\ idx > Len(files)
  /\ LET out == Outcome(Acc(commonWidth, totalHeight, images))
     IN  Return(out.result, out.strip)
  /\ UNCHANGED <<files, idx, rcOpen, commonWidth, totalHeight, images, buf, dec>>

Next == OpenReader \/ SortFiles \/ NextEntry \/ ReadFails \/ ReadEntry \/ Finish

Spec == Init /\ [][Next]_vars

\* ---------------------------------------------- decodeImage on its own
\* decodeImage applied to every buffer, polyglot buffers included.
InitDecode ==
  /\ buf \in Bytes
  /\ dec = NoProbe
  /\ pc = "probe"
  /\ files = <<>>
  /\ idx = 1
  /\ handleOpen = FALSE
  /\ handleCloses = 0
  /\ rcOpen = FALSE
  /\ commonWidth = 0
  /\ totalHeight = 0
  /\ images = <<>>
  /\ result = "none"
  /\ finalImage = NoStrip

DecodeProbe ==
  /\ pc = "probe"
  /\ dec' = decodeImage(buf)
  /\ pc' = "probed"
  /\ UNCHANGED <<files, idx, handleOpen, handleCloses, rcOpen, commonWidth,
                 totalHeight, images, result, finalImage, buf>>

NextDecode == DecodeProbe

SpecDecode == InitDecode /\ [][NextDecode]_vars

\* --------------------------------------------- the page loop as a function
\* Lines 91-137 over an archive whose content is known: what the call
\* returns when the entries come in the order fs.
RECURSIVE PageLoop(_, _)
PageLoop(fs, st) ==
  IF fs = <<>> THEN Outcome(st)
  ELSE LET f == Head(fs)
       IN  IF ~isImageFile(f.name) THEN PageLoop(Tail(fs), st)
           ELSE IF f.content.kind = "openErr"
             THEN [result |-> "EntryOpenError", strip |-> NoStrip]
           ELSE IF f.content.kind = "readErr"
             THEN [result |-> "EntryReadError", strip |-> NoStrip]
           ELSE IF f.content.kind = "img"
             THEN PageLoop(Tail(fs), Accumulate(st, Page(f.name, f.content)))
           ELSE PageLoop(Tail(fs), st)

\* ------------------------------------------------------------ vocabulary
Done == pc = "done"
Opened == result # "ArchiveOpenError"

\* The entries found to hold an image, and the first of them.
DecodedIdx == {i \in 1..Len(files) : files[i].content.kind = "img"}
FirstDecoded == CHOOSE i \in DecodedIdx : \A j \in DecodedIdx : i <= j

RECURSIVE SumHeights(_)
SumHeights(I) ==
  IF I = {} THEN 0
  ELSE LET i == CHOOSE x \in I : TRUE
       IN  files[i].content.h + SumHeights(I \ {i})

StripHeight == Len(finalImage.rows)

\* ----------------------------------------------------------------- claims
\* The loop ran to its end: no entry failed to open or to be read.
LoopCompleted == Done /\ result \in {"ok", "NoValidPagesError"}

\* All pages decoded so far have one width.
OneWidth == \A i, j \in DecodedIdx : files[i].content.w = files[j].content.w

\* C1: when at least one candidate entry decodes and all decoded pages share
\* one width W, the call succeeds with a strip of width W whose height is the
\* sum of the heights of all decoded pages.
C1_SumOfHeights ==
  (Done /\ Opened /\ DecodedIdx # {} /\ OneWidth) =>
     /\ result = "ok"
     /\ finalImage.w = files[FirstDecoded].content.w
     /\ StripHeight = SumHeights(DecodedIdx)

\* The same, for the calls in which no entry failed to open or to be read.
SumOfHeightsWhenLoopCompletes ==
  (LoopCompleted /\ DecodedIdx # {} /\ OneWidth) =>
     /\ result = "ok"
     /\ finalImage.w = files[FirstDecoded].content.w
     /\ StripHeight = SumHeights(DecodedIdx)

\* C3: once the archive is open, the only failure the call can return is
\* NoValidPagesError; a condition of one entry never ends the call.
C3_OnlyNoValidPagesFails ==
  (Done /\ Opened /\ result # "ok") => result = "NoValidPagesError"

\* C5: every accepted page has the strip's width, and that width is the
\* width of the first decoded page, for every width a page can have.
C5_AcceptedPagesHaveStripWidth ==
  images # <<>> =>
     /\ commonWidth = images[1].w
     /\ \A i \in 1..Len(images) : images[i].w = commonWidth

\* C6: once the archive is open, NoValidPagesError is returned exactly when
\* no page was accepted, and only after every entry has been attempted.
C6_NoValidPagesIffNoneAccepted ==
  (Done /\ Opened) =>
     /\ (result = "NoValidPagesError") <=> (images = <<>>)
     /\ result = "NoValidPagesError" => idx > Len(files)

\* The same, for the calls in which no entry failed to open or to be read;
\* an archive without candidate entries is such a call.
NoValidPagesIffNoneAcceptedWhenLoopCompletes ==
  /\ LoopCompleted =>
       /\ (result = "NoValidPagesError") <=> (images = <<>>)
       /\ idx > Len(files)
  /\ (Done /\ Opened /\ \A i \in 1..Len(files) : ~isImageFile(files[i].name))
       => result = "NoValidPagesError"

\* C2: the accepted pages lie in the strip in ascending order of their entry
\* names: a row of a page of smaller name is above every row of a page of
\* greater name, and the accepted list is in that order too.
C2_PagesInNameOrder ==
  /\ \A i, j \in 1..Len(images) :
       NameLess(images[i].src, images[j].src) => i < j
  /\ (Done /\ result = "ok") =>
       \A i, j \in 1..StripHeight :
          (/\ finalImage.rows[i] # BlankRow
           /\ finalImage.rows[j] # BlankRow
           /\ NameLess(finalImage.rows[i].src, finalImage.rows[j].src)) => i < j

\* A strip that holds rows of two pages of different names.
C2_Witness ==
  /\ Done /\ result = "ok"
  /\ \E i, j \in 1..StripHeight :
        /\ finalImage.rows[i] # BlankRow
        /\ NameLess(finalImage.rows[i].src, finalImage.rows[j].src)

\* Every decoded page but the first has another width than the first.
OthersMismatchFirst ==
  /\ DecodedIdx # {}
  /\ \A i \in DecodedIdx \ {FirstDecoded} :
        files[i].content.w # files[FirstDecoded].content.w

FirstPage == Page(files[FirstDecoded].name, files[FirstDecoded].content)

\* C4 as stated: when every page has another width than the first accepted
\* page, the call returns NoValidPagesError.
C4_AllMismatchedGivesNoValidPages ==
  (Done /\ Opened /\ OthersMismatchFirst /\ Cardinality(DecodedIdx) >= 2)
     => result = "NoValidPagesError"

\* C4 amended: when every other decoded page has another width than the first
\* accepted page, the call never returns NoValidPagesError: it returns a strip
\* (or the error of an entry that cannot be opened or read); the strip begins
\* with the first decoded page and, when that page's width is not 0, is that
\* page alone.
C4_FirstPageIsAlwaysAccepted ==
  (Done /\ Opened /\ OthersMismatchFirst) =>
     /\ result \in {"ok", "EntryOpenError", "EntryReadError"}
     /\ result = "ok" =>
          /\ images # <<>>
          /\ images[1] = FirstPage
          /\ FirstPage.w # 0 =>
               /\ images = <<FirstPage>>
               /\ finalImage.w = FirstPage.w
               /\ StripHeight = FirstPage.h

\* A strip of the first page alone, a later page having been turned down.
C4_Witness ==
  /\ Done /\ result = "ok" /\ OthersMismatchFirst
  /\ Cardinality(DecodedIdx) >= 2
  /\ FirstPage.w # 0
  /\ images = <<FirstPage>>

\* The step passes over the entry at idx: it is no image file, or no decoder
\* takes it, or its width is not the width the strip has been given.
SkipsEntry ==
  \/ /\ pc = "loop" /\ idx <= Len(files)
     /\ ~isImageFile(files[idx].name)
  \/ /\ pc = "read" /\ pc' = "loop"
     /\ files'[idx].content.kind = "bad"
  \/ /\ pc = "read" /\ pc' = "loop"
     /\ files'[idx].content.kind = "img"
     /\ commonWidth # 0
     /\ files'[idx].content.w # commonWidth

\* Every candidate entry was read: it is undecodable or holds an image.
AllKnown ==
  \A i \in 1..Len(files) :
     isImageFile(files[i].name) => files[i].content.kind \in {"bad", "img"}

\* The pages of the entries that hold an image, in the order of the entries.
RECURSIVE PagesOf(_)
PagesOf(fs) ==
  IF fs = <<>> THEN <<>>
  ELSE IF Head(fs).content.kind = "img"
    THEN <<Page(Head(fs).name, Head(fs).content)>> \o PagesOf(Tail(fs))
  ELSE PagesOf(Tail(fs))

\* C7: a step that skips an entry leaves the strip width, the accumulated
\* height and the accepted pages as they were and goes on to the next entry;
\* so an archive of valid pages of one width and corrupted entries gives the
\* strip of exactly the valid pages.
C7_SkipLeavesStripUnchanged ==
  /\ [][SkipsEntry =>
          /\ UNCHANGED <<commonWidth, totalHeight, images>>
          /\ idx' = idx + 1
          /\ pc' = "loop"]_vars
  /\ []((Done /\ Opened /\ AllKnown /\ OneWidth /\ DecodedIdx # {}) =>
          /\ result = "ok"
          /\ images = PagesOf(files)
          /\ StripHeight = SumHeights(DecodedIdx))

\* Two valid pages of one width and one corrupted entry among them.
C7_Witness ==
  /\ Done /\ result = "ok" /\ OneWidth
  /\ Len(files) = 3
  /\ Cardinality(DecodedIdx) = 2
  /\ \E i \in 1..3 : files[i].content.kind = "bad"
  /\ Len(images) = 2
  /\ commonWidth # 0

\* C8: after a successful open the archive handle is closed exactly once on
\* every return, no entry reader is open when the next entry is taken or
\* when the call returns, and the handle stays open while entries are read.
C8_HandlesReleased ==
  /\ handleCloses <= 1
  /\ (Done /\ Opened) => (~handleOpen /\ handleCloses = 1 /\ ~rcOpen)
  /\ (Done /\ ~Opened) => (~handleOpen /\ handleCloses = 0 /\ ~rcOpen)
  /\ pc \in {"sort", "loop"} => (handleOpen /\ handleCloses = 0 /\ ~rcOpen)
  /\ pc = "read" => (handleOpen /\ handleCloses = 0 /\ rcOpen)

\* A return from inside the page loop, after an entry was read and closed.
C8_Witness ==
  /\ Done /\ result = "EntryReadError"
  /\ idx > 1
  /\ handleCloses = 1 /\ ~handleOpen /\ ~rcOpen

\* C9: the strip depends on the set of entries alone: whichever name-sorted
\* order the entries come in, entries of one name included, the call returns
\* the same.
C9_SameStripInEverySortedOrder ==
  (Done /\ result = "ok") =>
     \A g \in SortedOrders(files) :
        PageLoop(g, EmptyAcc) = [result |-> result, strip |-> finalImage]

\* The same for archives whose entry names are all different.
DistinctNames == \A i, j \in 1..Len(files) : i # j => files[i].name # files[j].name

SameStripWhenNamesDiffer ==
  (Done /\ result = "ok" /\ DistinctNames) =>
     \A g \in SortedOrders(files) :
        PageLoop(g, EmptyAcc) = [result |-> result, strip |-> finalImage]

\* The call returns what the page loop gives on the entries in the order
\* they were processed in.
ReturnsPageLoop ==
  (Done /\ Opened) => PageLoop(files, EmptyAcc) = [result |-> result, strip |-> finalImage]

\* The order the code tries the decoders in.
DecoderOrder == <<"jpeg", "png", "webp">>

\* C10: decodeImage calls the decoders in the order JPEG, PNG, WebP, each at
\* most once, stops at the first that succeeds and returns its image and its
\* tag; it fails exactly when all three fail.
C10_FirstDecoderWins ==
  pc = "probed" =>
     /\ dec.err <=> (\A f \in Formats : ~buf[f].ok)
     /\ dec.err => dec.tried = DecoderOrder
     /\ \A k \in 1..3 :
          (buf[DecoderOrder[k]].ok /\ \A j \in 1..(k - 1) : ~buf[DecoderOrder[j]].ok) =>
             /\ ~dec.err
             /\ dec.format = DecoderOrder[k]
             /\ dec.img = buf[DecoderOrder[k]]
             /\ dec.tried = SubSeq(DecoderOrder, 1, k)
     /\ \A i, j \in 1..Len(dec.tried) : i # j => dec.tried[i] # dec.tried[j]

\* A buffer that JPEG and PNG both take, as different images.
C10_Witness ==
  /\ pc = "probed"
  /\ buf["jpeg"].ok /\ buf["png"].ok /\ buf["jpeg"] # buf["png"]
  /\ dec.format = "jpeg" /\ dec.tried = <<"jpeg">>

====
